---- MODULE Spec2Model ----
(***************************************************************************)
(* The bytecode VM of limbo (core/vdbe.rs) and its synchronous file        *)
(* backend (core/io/windows.rs).                                           *)
(*                                                                         *)
(* One program, chosen in Init, is executed by two program states side by  *)
(* side: one over a synchronous backend and one over an asynchronous one.  *)
(* Both start from the same table and the same page cache, so statements   *)
(* that compare the two backends are statements about one state.           *)
(*                                                                         *)
(* A step call is CallStep followed by one dispatch action per iteration   *)
(* of the loop of Program::step; while inStep[b] holds only the dispatch   *)
(* of the instruction at pc[b] is enabled for b, so the iterations of one  *)
(* call are never interleaved with anything else the caller of b does.     *)
(*                                                                         *)
(* The B-tree cursor and the pager are not part of core/vdbe.rs; they are  *)
(* modelled from sections 4.3 and 4.4 of the specification.                *)
(*                                                                         *)
(* Two components are also followed on their own: the ProgramBuilder, under *)
(* BuilderSpec (any interleaving of its methods up to build), and           *)
(* WindowsFile::pread with WindowsIO::run_once, under PreadSpec (any        *)
(* sequence of reads, each into a Completion of its own).                   *)
(***************************************************************************)
EXTENDS Integers, Sequences, FiniteSets, TLC

VARIABLES
    prog,       \* the Program: [insns, max_registers]; immutable after build
    table,      \* the database fixture: [nrows, perPage]
    pc,         \* ProgramState.pc, per backend
    registers,  \* ProgramState.registers, per backend (register r is registers[b][r + 1])
    cursors,    \* ProgramState.cursors, per backend: cursor id -> cursor
    pager,      \* the pager's cache, per backend: [resident, loading]
    inStep,     \* per backend: TRUE inside a call of Program::step
    result,     \* per backend: what the last call of step returned
    rows,       \* per backend: the records returned in Row so far, in order
    ioSnap,     \* per backend: <<>> or the state the first IO-returning attempt started from
    file,       \* WindowsFile.file: the open file, [offset] its seek position
    completions, \* the calls of WindowsFile::pread so far: [pos, c, ret], c the Completion
    builder,    \* the ProgramBuilder: [next_free_register, next_free_cursor_id, insns]
    planner     \* what the builder's caller has seen: the indices handed out, the
                \* instructions it appended, the last return value, built, panicked

vmVars == <<prog, table, pc, registers, cursors, pager, inStep, result, rows, ioSnap>>
ioVars == <<file, completions>>
builderVars == <<builder, planner>>
vars == <<vmVars, ioVars, builderVars>>

----------------------------------------------------------------------------
(* Bounds of the model *)

MaxRows == 3        \* tables hold 0..MaxRows rows
MaxPerPage == 2     \* a leaf page holds 1..MaxPerPage rows
MaxK == 3           \* the counter loop starts from -1..MaxK
MaxOut == 5         \* the caller stops calling step after MaxOut rows
NumRegs == 2        \* registers of the generated one- and two-instruction programs
FileLen == 3        \* bytes in the file behind WindowsFile
BufLen == 2         \* bytes of a Completion's buffer
MaxPreads == 2      \* calls of WindowsFile::pread that are followed
MaxAllocs == 2      \* registers, and cursor ids, a planner allocates
MaxInsns == 3       \* instructions a planner appends
IntBits == 4        \* the width i64 is scaled to

RootPage == 2       \* "root page 2" of the fixtures of section 8

Backends == {"sync", "async"}

----------------------------------------------------------------------------
(* Values *)

\* i64::MIN and i64::MAX, at IntBits bits.
I64Min == -(2 ^ (IntBits - 1))
I64Max == (2 ^ (IntBits - 1)) - 1
I64 == I64Min .. I64Max

\* n - m on i64 as a release build computes it (two's complement); a debug
\* build panics when the result differs from n - m.
wrapping_sub(n, m) == ((n - m - I64Min) % (2 ^ IntBits)) + I64Min

\* OwnedValue: what a register holds.
OwnedNull == [t |-> "Null"]
OwnedInteger(n) == [t |-> "Integer", i |-> n]
OwnedText(s) == [t |-> "Text", s |-> s]

\* Value: what a returned record holds.
ValueNull == [v |-> "Null"]
ValueInteger(n) == [v |-> "Integer", i |-> n]
ValueText(s) == [v |-> "Text", s |-> s]

\* crate::types::to_value: the borrowed view of an owned value.
to_value(o) ==
    CASE o.t = "Null" -> ValueNull
      [] o.t = "Integer" -> ValueInteger(o.i)
      [] o.t = "Text" -> ValueText(o.s)

----------------------------------------------------------------------------
(* The instruction set *)

InitInsn(t) == [op |-> "Init", target_pc |-> t]
OpenReadAsyncInsn(c, r) == [op |-> "OpenReadAsync", cursor_id |-> c, root_page |-> r]
OpenReadAwaitInsn == [op |-> "OpenReadAwait"]
RewindAsyncInsn(c) == [op |-> "RewindAsync", cursor_id |-> c]
RewindAwaitInsn(c, t) == [op |-> "RewindAwait", cursor_id |-> c, pc_if_empty |-> t]
ColumnInsn(c, col, d) == [op |-> "Column", cursor_id |-> c, column |-> col, dest |-> d]
ResultRowInsn(s, e) == [op |-> "ResultRow", register_start |-> s, register_end |-> e]
NextAsyncInsn(c) == [op |-> "NextAsync", cursor_id |-> c]
NextAwaitInsn(c, t) == [op |-> "NextAwait", cursor_id |-> c, pc_if_next |-> t]
HaltInsn == [op |-> "Halt"]
TransactionInsn == [op |-> "Transaction"]
GotoInsn(t) == [op |-> "Goto", target_pc |-> t]
IntegerInsn(v, d) == [op |-> "Integer", value |-> v, dest |-> d]
String8Insn(s, d) == [op |-> "String8", value |-> s, dest |-> d]
RowIdInsn(c, d) == [op |-> "RowId", cursor_id |-> c, dest |-> d]
DecrJumpZeroInsn(r, t) == [op |-> "DecrJumpZero", reg |-> r, target_pc |-> t]

----------------------------------------------------------------------------
(* Programs *)

\* The table scan of section 8, scenarios 1, 2, 4 and 5 (body = Column) and
\* scenario 6 (body = RowId).
ScanProgram(body) ==
    [max_registers |-> 1,
     insns |-> << InitInsn(1), TransactionInsn, OpenReadAsyncInsn(0, RootPage),
                  OpenReadAwaitInsn, RewindAsyncInsn(0), RewindAwaitInsn(0, 10),
                  body, ResultRowInsn(0, 1), NextAsyncInsn(0), NextAwaitInsn(0, 6),
                  HaltInsn >>]

ColumnScan == ScanProgram(ColumnInsn(0, 0, 0))
RowIdScan == ScanProgram(RowIdInsn(0, 0))

\* The counter loop of section 8, scenario 3, started from k.
CounterProgram(k) ==
    [max_registers |-> 1,
     insns |-> << IntegerInsn(k, 0), DecrJumpZeroInsn(0, 4), ResultRowInsn(0, 1),
                  GotoInsn(1), HaltInsn >>]

CounterStarts == (-1) .. MaxK

\* Programs a builder should not produce: a cursor read before any rewind,
\* a cursor that was never opened, and a scan whose loop does not end in Halt.
MisbuiltCursorPrograms ==
    { [max_registers |-> 1,
       insns |-> << OpenReadAsyncInsn(0, RootPage), OpenReadAwaitInsn, body,
                    ResultRowInsn(0, 1), HaltInsn >>] :
        body \in {ColumnInsn(0, 0, 0), RowIdInsn(0, 0)} }
    \cup
    { [max_registers |-> 1, insns |-> << RewindAsyncInsn(0), HaltInsn >>],
      [max_registers |-> 1,
       insns |-> << OpenReadAsyncInsn(0, RootPage), RewindAsyncInsn(0),
                    RewindAwaitInsn(0, 0), NextAsyncInsn(0), NextAwaitInsn(0, 3) >>] }

CursorPrograms == {ColumnScan, RowIdScan} \cup MisbuiltCursorPrograms

\* Every cursor-free instruction over NumRegs registers whose branch target
\* lies inside a program of len instructions.
GenPool(len) ==
    {InitInsn(t) : t \in 0 .. (len - 1)}
    \cup {GotoInsn(t) : t \in 0 .. (len - 1)}
    \cup {HaltInsn, TransactionInsn}
    \cup {IntegerInsn(v, d) : v \in {-1, 0, 1, 2}, d \in 0 .. (NumRegs - 1)}
    \cup {String8Insn("s", d) : d \in 0 .. (NumRegs - 1)}
    \cup {ResultRowInsn(s, e) : s \in 0 .. NumRegs, e \in 0 .. NumRegs}
    \cup {DecrJumpZeroInsn(r, t) : r \in 0 .. (NumRegs - 1), t \in 0 .. (len - 1)}

\* All one- and two-instruction cursor-free programs.
GenPrograms ==
    { [max_registers |-> NumRegs, insns |-> <<a>>] : a \in GenPool(1) }
    \cup
    { [max_registers |-> NumRegs, insns |-> <<a, b>>] : a \in GenPool(2), b \in GenPool(2) }

CounterPrograms == {CounterProgram(k) : k \in CounterStarts}

\* A branch past the end of the program.
MisbuiltBranchPrograms ==
    { [max_registers |-> 1, insns |-> << GotoInsn(2), HaltInsn >>],
      [max_registers |-> 1, insns |-> << IntegerInsn(0, 0), DecrJumpZeroInsn(0, 3), HaltInsn >>] }

\* DecrJumpZero on the least and on the greatest i64: the register is loaded,
\* tested once, and returned when it was decremented.
BoundaryPrograms ==
    { [max_registers |-> 1,
       insns |-> << IntegerInsn(v, 0), DecrJumpZeroInsn(0, 3), ResultRowInsn(0, 1),
                    HaltInsn >>] : v \in {I64Min, I64Max} }

Programs ==
    CursorPrograms \cup CounterPrograms \cup GenPrograms \cup MisbuiltBranchPrograms
    \cup BoundaryPrograms

----------------------------------------------------------------------------
(* The program builder *)

\* ProgramBuilder::new
ProgramBuilderNew == [next_free_register |-> 0, next_free_cursor_id |-> 0, insns |-> << >>]

\* A bug: the counter is incremented before it is read.
alloc_register_PreIncrement(bd) ==
    [builder |-> [bd EXCEPT !.next_free_register = @ + 1], ret |-> bd.next_free_register + 1]

\* ProgramBuilder::alloc_register: the builder afterwards and the index returned.
alloc_register(bd) ==
    [builder |-> [bd EXCEPT !.next_free_register = @ + 1], ret |-> bd.next_free_register]

\* ProgramBuilder::next_free_register
next_free_register(bd) == bd.next_free_register

\* ProgramBuilder::alloc_cursor_id
alloc_cursor_id(bd) ==
    [builder |-> [bd EXCEPT !.next_free_cursor_id = @ + 1], ret |-> bd.next_free_cursor_id]

\* A bug: the offset is read after the push.
emit_placeholder_OffsetAfterPush(bd) ==
    [builder |-> [bd EXCEPT !.insns = Append(@, HaltInsn)], ret |-> Len(bd.insns) + 1]

\* ProgramBuilder::emit_placeholder: pushes a Halt, returns where it is.
emit_placeholder(bd) ==
    [builder |-> [bd EXCEPT !.insns = Append(@, HaltInsn)], ret |-> Len(bd.insns)]

\* ProgramBuilder::emit_insn
emit_insn(bd, insn) == [bd EXCEPT !.insns = Append(@, insn)]

\* ProgramBuilder::fixup_insn, for offset < insns.len() (it panics otherwise).
fixup_insn(bd, offset, insn) == [bd EXCEPT !.insns[offset + 1] = insn]

\* ProgramBuilder::offset
offset(bd) == Len(bd.insns)

\* ProgramBuilder::build
build(bd) ==
    [max_registers |-> bd.next_free_register, insns |-> bd.insns,
     program_type |-> << "Default" >>]

\* ProgramBuilder::build_pragma_change
build_pragma_change(bd, pragma_to_change, value) ==
    [max_registers |-> bd.next_free_register, insns |-> bd.insns,
     program_type |-> << "PragmaChange", pragma_to_change, value >>]

\* The caller of a fresh builder: no index handed out, nothing appended.
PlannerNew ==
    [regs |-> << >>, cursor_ids |-> << >>, appended |-> 0, ret |-> << >>,
     built |-> FALSE, panicked |-> FALSE]

----------------------------------------------------------------------------
(* The table and its pages: a single leaf that is the root, or an interior   *)
(* root over a chain of leaves.                                               *)

Tables == {[nrows |-> n, perPage |-> k] : n \in 0 .. MaxRows, k \in 1 .. MaxPerPage}

EmptyTable == [nrows |-> 0, perPage |-> 1]

NumLeaves(t) ==
    IF t.nrows = 0 THEN 1 ELSE (t.nrows + t.perPage - 1) \div t.perPage

Pages(t) ==
    IF NumLeaves(t) = 1 THEN {RootPage} ELSE RootPage .. (RootPage + NumLeaves(t))

\* The page holding row i (rows are numbered 1..nrows, in cursor order).
LeafOf(t, i) ==
    IF NumLeaves(t) = 1 THEN RootPage ELSE RootPage + 1 + ((i - 1) \div t.perPage)

NameOf(i) ==
    CASE i = 1 -> "a" [] i = 2 -> "b" [] i = 3 -> "c" [] i = 4 -> "d"
      [] i = 5 -> "e" [] OTHER -> "z"

\* Row i: rowid i and the one-column record (name).
RowRecord(i) == << OwnedText(NameOf(i)) >>
RowRowId(i) == i

----------------------------------------------------------------------------
(* The file backend and the pager (sections 4.4 and 4.5) *)

\* WindowsFile::pread when seek and read_exact succeed: the buffer is filled
\* and the completion is completed before pread returns, so the frame is Ready.
pread(pg, p) == [pg EXCEPT !.resident = @ \cup {p}]

\* An asynchronous pread: the read is submitted and its completion is pending.
SubmitAsync(pg, p) == [pg EXCEPT !.loading = @ \cup {p}]

\* WindowsIO::run_once: nothing to deliver.
run_once(pg) == pg

\* run_once of an asynchronous backend, pumped to quiescence.
RunOnceAsync(pg) == [resident |-> pg.resident \cup pg.loading, loading |-> {}]

\* Pager::read_page. eager: whether a read that completed inside pread is
\* seen as Ready by this very call (section 4.4 returns IO on every miss;
\* a pager that looks at the frame after submitting returns Ok).
ReadPage(pg, p, b, eager) ==
    IF p \in pg.resident THEN [pager |-> pg, res |-> "Ok"]
    ELSE IF p \in pg.loading THEN [pager |-> pg, res |-> "IO"]
    ELSE IF b = "sync"
         THEN [pager |-> pread(pg, p), res |-> IF eager THEN "Ok" ELSE "IO"]
         ELSE [pager |-> SubmitAsync(pg, p), res |-> "IO"]

----------------------------------------------------------------------------
(* The synchronous file backend at the level of one Completion                *)
(* (core/io/windows.rs)                                                       *)

\* WindowsIO::open_file: the file just opened, its seek position at the start.
OpenFile == [offset |-> 0]

\* A Completion the pager hands to pread: a buffer of BufLen bytes of which
\* filled are read so far, and delivered, what the buffer held (how many
\* bytes) each time complete() ran.
NewCompletion == [filled |-> 0, delivered |-> << >>]

\* Completion::complete: the callback sees the buffer as it is now.
complete(c) == [c EXCEPT !.delivered = Append(@, c.filled)]

\* A bug: the completion is fired before the read, and again after it.
WindowsFile_pread_CompletesEarly(f, pos, c, seekOk, got) ==
    IF ~seekOk THEN [file |-> f, c |-> c, ret |-> "Err"]
    ELSE [file |-> [f EXCEPT !.offset = pos + got],
          c |-> complete([complete(c) EXCEPT !.filled = got]),
          ret |-> IF got < BufLen THEN "Err" ELSE "Ok"]

\* WindowsFile::pread(pos, c). seekOk: whether file.seek succeeds; got: the
\* bytes read_exact puts into the buffer, all BufLen of them when it succeeds
\* and fewer when it fails (end of file, or an error of the read). Either
\* failure returns through ? before c.complete().
WindowsFile_pread(f, pos, c, seekOk, got) ==
    IF ~seekOk THEN [file |-> f, c |-> c, ret |-> "Err"]
    ELSE IF got < BufLen
    THEN [file |-> [f EXCEPT !.offset = pos + got],
          c |-> [c EXCEPT !.filled = got], ret |-> "Err"]
    ELSE [file |-> [f EXCEPT !.offset = pos + got],
          c |-> complete([c EXCEPT !.filled = got]), ret |-> "Ok"]

\* WindowsIO::run_once on the Completions handed out so far: Ok(()), and no
\* Completion is touched.
WindowsIO_run_once(cs) == cs

\* The pager, or any caller, reads BufLen bytes at pos into a new Completion.
Pread ==
    /\ Len(completions) < MaxPreads
    /\ \E pos \in 0 .. FileLen, seekOk \in BOOLEAN :
       \E got \in 0 .. (IF pos + BufLen <= FileLen THEN BufLen ELSE FileLen - pos) :
          LET r == WindowsFile_pread(file, pos, NewCompletion, seekOk, got) IN
          /\ file' = r.file
          /\ completions' = Append(completions, [pos |-> pos, c |-> r.c, ret |-> r.ret])
    /\ UNCHANGED <<vmVars, builderVars>>

\* The caller pumps the reactor of the synchronous backend.
IoRunOnce ==
    /\ completions' = WindowsIO_run_once(completions)
    /\ UNCHANGED <<file, vmVars, builderVars>>

----------------------------------------------------------------------------
(* The B-tree cursor (section 4.3) *)

\* BTreeCursor::new: unpositioned, nothing pending.
NewCursor(root) ==
    [root_page |-> root, state |-> "Unpositioned", row |-> 0, pending |-> "none"]

\* Cursor::rewind: needs the root and, under an interior root, the leftmost
\* leaf. Returns IO without touching the cursor while a page is missing.
CursorRewind(c, pg, t, b, eager) ==
    LET r1 == ReadPage(pg, c.root_page, b, eager) IN
    IF r1.res = "IO" THEN [cursor |-> c, pager |-> r1.pager, res |-> "IO"]
    ELSE IF NumLeaves(t) = 1
    THEN [cursor |-> [c EXCEPT !.pending = "rewind"], pager |-> r1.pager, res |-> "Ok"]
    ELSE LET r2 == ReadPage(r1.pager, c.root_page + 1, b, eager) IN
         IF r2.res = "IO" THEN [cursor |-> c, pager |-> r2.pager, res |-> "IO"]
         ELSE [cursor |-> [c EXCEPT !.pending = "rewind"], pager |-> r2.pager, res |-> "Ok"]

\* Cursor::next: needs the right sibling when the current leaf is used up.
CursorNext(c, pg, t, b, eager) ==
    IF c.state = "Positioned" /\ c.row < t.nrows /\ LeafOf(t, c.row + 1) # LeafOf(t, c.row)
    THEN LET r == ReadPage(pg, LeafOf(t, c.row + 1), b, eager) IN
         IF r.res = "IO" THEN [cursor |-> c, pager |-> r.pager, res |-> "IO"]
         ELSE [cursor |-> [c EXCEPT !.pending = "next"], pager |-> r.pager, res |-> "Ok"]
    ELSE [cursor |-> [c EXCEPT !.pending = "next"], pager |-> pg, res |-> "Ok"]

\* Cursor::wait_for_completion: the move that rewind or next asked for.
CursorWait(c, t) ==
    CASE c.pending = "rewind" ->
           IF t.nrows > 0
           THEN [c EXCEPT !.state = "Positioned", !.row = 1, !.pending = "none"]
           ELSE [c EXCEPT !.state = "Exhausted", !.row = 0, !.pending = "none"]
      [] c.pending = "next" ->
           IF c.state = "Positioned" /\ c.row < t.nrows
           THEN [c EXCEPT !.row = c.row + 1, !.pending = "none"]
           ELSE IF c.state = "Positioned"
           THEN [c EXCEPT !.state = "Exhausted", !.row = 0, !.pending = "none"]
           ELSE [c EXCEPT !.pending = "none"]
      [] OTHER -> c

\* Cursor::is_empty: no valid cell at the current position.
CursorIsEmpty(c) == c.state # "Positioned"

\* Cursor::record and Cursor::rowid: <<x>> for Some(x), <<>> for None.
CursorRecord(c) == IF c.state = "Positioned" THEN << RowRecord(c.row) >> ELSE << >>
CursorRowId(c) == IF c.state = "Positioned" THEN << RowRowId(c.row) >> ELSE << >>

----------------------------------------------------------------------------
(* Program state and the pieces of Program::step *)

\* A bug: registers are sized by the highest index, one short of the count.
ProgramStateNew_OneShort(max_registers) ==
    [pc |-> 0, cursors |-> << >>,
     registers |-> [r \in 1 .. (max_registers - 1) |-> OwnedNull]]

\* ProgramState::new: pc 0, no cursor, max_registers registers, all Null.
ProgramStateNew(max_registers) ==
    [pc |-> 0, cursors |-> << >>, registers |-> [r \in 1 .. max_registers |-> OwnedNull]]

\* ProgramState::column_count: the number of registers.
column_count(regs) == Len(regs)

\* A bug: the instruction forgets to advance pc.
AdvancePc_Stuck(p) == p

\* state.pc += 1
AdvancePc(p) == p + 1

\* A bug: the branch lands one instruction late.
JumpPc_OffByOne(target_pc) == target_pc + 1

\* state.pc = *target_pc (Init, Goto)
JumpPc(target_pc) == target_pc

\* A bug: pc is advanced before the cursor's result is looked at.
AsyncIOPc_Advanced(p) == p + 1

\* RewindAsync and NextAsync on CursorResult::IO: return without touching pc.
AsyncIOPc(p) == p

\* A bug: the test of is_empty is inverted.
RewindAwaitPc_Inverted(empty, p, pc_if_empty) == IF ~empty THEN pc_if_empty ELSE p + 1

\* RewindAwait: to pc_if_empty when the cursor is empty, else the next instruction.
RewindAwaitPc(empty, p, pc_if_empty) == IF empty THEN pc_if_empty ELSE p + 1

\* A bug: the test of is_empty is inverted.
NextAwaitPc_Inverted(empty, p, pc_if_next) == IF empty THEN pc_if_next ELSE p + 1

\* NextAwait: to pc_if_next when the cursor is not empty, else the next instruction.
NextAwaitPc(empty, p, pc_if_next) == IF ~empty THEN pc_if_next ELSE p + 1

\* A bug: SQLite's DecrJumpZero, which decrements first and jumps when the
\* result is zero.
DecrJumpZeroStep_Sqlite(n, p, target_pc) ==
    [value |-> wrapping_sub(n, 1),
     pc |-> IF wrapping_sub(n, 1) = 0 THEN target_pc ELSE p + 1,
     overflow |-> n - 1 \notin I64]

\* A bug: the register is decremented before n > 0 is tested.
DecrJumpZeroStep_DecrementFirst(n, p, target_pc) ==
    [value |-> wrapping_sub(n, 1),
     pc |-> IF n > 0 THEN p + 1 ELSE target_pc,
     overflow |-> n - 1 \notin I64]

\* DecrJumpZero on Integer(n): the register's content and the pc afterwards
\* (the register is written only when n > 0; its content is n otherwise), and
\* whether the subtraction it made, if any, overflowed i64.
DecrJumpZeroStep(n, p, target_pc) ==
    IF n > 0
    THEN [value |-> wrapping_sub(n, 1), pc |-> p + 1, overflow |-> n - 1 \notin I64]
    ELSE [value |-> n, pc |-> target_pc, overflow |-> FALSE]

\* A bug: the record is read from register 0 on, whatever register_start is.
make_record_FromZero(regs, register_end, register_start) ==
    [k \in 1 .. (register_end - register_start) |-> to_value(regs[k])]

\* make_record(registers, register_end, register_start), for start <= end <= len.
make_record(regs, register_end, register_start) ==
    [k \in 1 .. (register_end - register_start) |-> to_value(regs[register_start + k])]

\* Whether make_record panics: the subtraction register_end - register_start
\* underflows (or asks for an impossible capacity), or registers[i] is out of bounds.
MakeRecordPanics(regs, register_end, register_start) ==
    register_start > register_end \/ register_end > Len(regs)

ProgLen == Len(prog.insns)
Fetching(b) == inStep[b] /\ pc[b] \in 0 .. (ProgLen - 1)
Insn(b) == prog.insns[pc[b] + 1]
At(b, op) == Fetching(b) /\ Insn(b).op = op
RegInBounds(b, r) == r < Len(registers[b])
SetReg(b, r, val) == [registers[b] EXCEPT ![r + 1] = val]
Opened(b, cursor_id) == cursor_id \in DOMAIN cursors[b]
PutCursor(b, cursor_id, c) ==
    [id \in DOMAIN cursors[b] \cup {cursor_id} |->
        IF id = cursor_id THEN c ELSE cursors[b][id]]

\* The end of one iteration of the dispatch loop of backend b. outcome is
\* "Continue" (the loop goes on), "Row", "IO", "Done" (step returns Ok of it),
\* "Err" (step returns an error through ?) or "Panic".
Commit(b, npc, nregs, ncursors, npager, outcome, record) ==
    /\ pc' = [pc EXCEPT ![b] = npc]
    /\ registers' = [registers EXCEPT ![b] = nregs]
    /\ cursors' = [cursors EXCEPT ![b] = ncursors]
    /\ pager' = [pager EXCEPT ![b] = npager]
    /\ inStep' = [inStep EXCEPT ![b] = (outcome = "Continue")]
    /\ result' = [result EXCEPT ![b] = IF outcome = "Continue" THEN @ ELSE outcome]
    /\ rows' = [rows EXCEPT ![b] = IF outcome = "Row" THEN Append(@, record) ELSE @]
    /\ ioSnap' = [ioSnap EXCEPT ![b] =
                    IF outcome # "IO" THEN << >>
                    ELSE IF @ # << >> THEN @
                    ELSE << [pc |-> pc[b], registers |-> registers[b],
                             cursors |-> cursors[b]] >>]
    /\ UNCHANGED <<prog, table, ioVars, builderVars>>

\* The iteration ends the call and leaves the program state as it was.
Trap(b, outcome) ==
    Commit(b, pc[b], registers[b], cursors[b], pager[b], outcome, << >>)

----------------------------------------------------------------------------
(* The caller *)

\* The caller calls step: not after an error, after IO only once the reactor
\* has delivered the pending read (section 5), and not beyond MaxOut rows.
CallStep(b) ==
    /\ ~inStep[b]
    /\ result[b] \notin {"Err", "Panic"}
    /\ result[b] = "IO" => pager[b].loading = {}
    /\ Len(rows[b]) < MaxOut
    /\ inStep' = [inStep EXCEPT ![b] = TRUE]
    /\ UNCHANGED <<prog, table, pc, registers, cursors, pager, result, rows, ioSnap, ioVars, builderVars>>

\* The caller pumps the reactor after step returned IO.
RunOnce(b) ==
    /\ ~inStep[b]
    /\ result[b] = "IO"
    /\ pager' = [pager EXCEPT ![b] = IF b = "sync" THEN run_once(@) ELSE RunOnceAsync(@)]
    /\ UNCHANGED <<prog, table, pc, registers, cursors, inStep, result, rows, ioSnap, ioVars, builderVars>>

----------------------------------------------------------------------------
(* Program::step: the fetch, and one action per instruction *)

\* let insn = &self.insns[state.pc] with pc past the end: index out of bounds.
FetchOutOfBounds(b) ==
    /\ inStep[b]
    /\ pc[b] \notin 0 .. (ProgLen - 1)
    /\ Trap(b, "Panic")

Init_(b) ==
    /\ At(b, "Init")
    /\ Commit(b, JumpPc(Insn(b).target_pc), registers[b], cursors[b], pager[b],
              "Continue", << >>)

OpenReadAsync(b) ==
    /\ At(b, "OpenReadAsync")
    /\ Commit(b, AdvancePc(pc[b]), registers[b],
              PutCursor(b, Insn(b).cursor_id, NewCursor(Insn(b).root_page)),
              pager[b], "Continue", << >>)

OpenReadAwait(b) ==
    /\ At(b, "OpenReadAwait")
    /\ Commit(b, AdvancePc(pc[b]), registers[b], cursors[b], pager[b], "Continue", << >>)

RewindAsync(b) ==
    /\ At(b, "RewindAsync")
    /\ LET id == Insn(b).cursor_id IN
       IF ~Opened(b, id) THEN Trap(b, "Panic")
       ELSE \E fail \in BOOLEAN, eager \in BOOLEAN :
            IF fail THEN Trap(b, "Err")
            ELSE LET r == CursorRewind(cursors[b][id], pager[b], table, b, eager) IN
                 IF r.res = "IO"
                 THEN Commit(b, AsyncIOPc(pc[b]), registers[b],
                             PutCursor(b, id, r.cursor), r.pager, "IO", << >>)
                 ELSE Commit(b, AdvancePc(pc[b]), registers[b],
                             PutCursor(b, id, r.cursor), r.pager, "Continue", << >>)

\* A bug: the error of wait_for_completion is dropped and the loop goes on.
RewindAwait_SwallowsError(b) ==
    /\ At(b, "RewindAwait")
    /\ LET id == Insn(b).cursor_id IN
       IF ~Opened(b, id) THEN Trap(b, "Panic")
       ELSE \E fail \in BOOLEAN :
            LET c == IF fail THEN cursors[b][id] ELSE CursorWait(cursors[b][id], table) IN
            Commit(b, RewindAwaitPc(CursorIsEmpty(c), pc[b], Insn(b).pc_if_empty),
                   registers[b], PutCursor(b, id, c), pager[b], "Continue", << >>)

RewindAwait(b) ==
    /\ At(b, "RewindAwait")
    /\ LET id == Insn(b).cursor_id IN
       IF ~Opened(b, id) THEN Trap(b, "Panic")
       ELSE \E fail \in BOOLEAN :
            IF fail THEN Trap(b, "Err")
            ELSE LET c == CursorWait(cursors[b][id], table) IN
                 Commit(b, RewindAwaitPc(CursorIsEmpty(c), pc[b], Insn(b).pc_if_empty),
                        registers[b], PutCursor(b, id, c), pager[b], "Continue", << >>)

\* A bug: Column on a cursor without a current record stores Null and goes on
\* (what SQLite's OP_Column does on a null row).
Column_NullOnMissing(b) ==
    /\ At(b, "Column")
    /\ LET id == Insn(b).cursor_id IN
       IF ~Opened(b, id) \/ ~RegInBounds(b, Insn(b).dest) THEN Trap(b, "Panic")
       ELSE LET rec == CursorRecord(cursors[b][id]) IN
            Commit(b, AdvancePc(pc[b]),
                   SetReg(b, Insn(b).dest,
                          IF rec = << >> THEN OwnedNull ELSE rec[1][Insn(b).column + 1]),
                   cursors[b], pager[b], "Continue", << >>)

Column(b) ==
    /\ At(b, "Column")
    /\ LET id == Insn(b).cursor_id IN
       IF ~Opened(b, id) THEN Trap(b, "Panic")
       ELSE \E fail \in BOOLEAN :
            IF fail THEN Trap(b, "Err")
            ELSE LET rec == CursorRecord(cursors[b][id]) IN
                 IF rec = << >> THEN Trap(b, "Panic")
                 ELSE IF Insn(b).column >= Len(rec[1]) \/ ~RegInBounds(b, Insn(b).dest)
                 THEN Trap(b, "Panic")
                 ELSE Commit(b, AdvancePc(pc[b]),
                             SetReg(b, Insn(b).dest, rec[1][Insn(b).column + 1]),
                             cursors[b], pager[b], "Continue", << >>)

ResultRow(b) ==
    /\ At(b, "ResultRow")
    /\ IF MakeRecordPanics(registers[b], Insn(b).register_end, Insn(b).register_start)
       THEN Trap(b, "Panic")
       ELSE Commit(b, AdvancePc(pc[b]), registers[b], cursors[b], pager[b], "Row",
                   make_record(registers[b], Insn(b).register_end, Insn(b).register_start))

NextAsync(b) ==
    /\ At(b, "NextAsync")
    /\ LET id == Insn(b).cursor_id IN
       IF ~Opened(b, id) THEN Trap(b, "Panic")
       ELSE \E fail \in BOOLEAN, eager \in BOOLEAN :
            IF fail THEN Trap(b, "Err")
            ELSE LET r == CursorNext(cursors[b][id], pager[b], table, b, eager) IN
                 IF r.res = "IO"
                 THEN Commit(b, AsyncIOPc(pc[b]), registers[b],
                             PutCursor(b, id, r.cursor), r.pager, "IO", << >>)
                 ELSE Commit(b, AdvancePc(pc[b]), registers[b],
                             PutCursor(b, id, r.cursor), r.pager, "Continue", << >>)

NextAwait(b) ==
    /\ At(b, "NextAwait")
    /\ LET id == Insn(b).cursor_id IN
       IF ~Opened(b, id) THEN Trap(b, "Panic")
       ELSE \E fail \in BOOLEAN :
            IF fail THEN Trap(b, "Err")
            ELSE LET c == CursorWait(cursors[b][id], table) IN
                 Commit(b, NextAwaitPc(CursorIsEmpty(c), pc[b], Insn(b).pc_if_next),
                        registers[b], PutCursor(b, id, c), pager[b], "Continue", << >>)

\* A bug: Halt steps past itself before returning Done.
Halt_Advances(b) ==
    /\ At(b, "Halt")
    /\ Commit(b, AdvancePc(pc[b]), registers[b], cursors[b], pager[b], "Done", << >>)

Halt(b) ==
    /\ At(b, "Halt")
    /\ Trap(b, "Done")

Transaction(b) ==
    /\ At(b, "Transaction")
    /\ Commit(b, AdvancePc(pc[b]), registers[b], cursors[b], pager[b], "Continue", << >>)

Goto(b) ==
    /\ At(b, "Goto")
    /\ Commit(b, JumpPc(Insn(b).target_pc), registers[b], cursors[b], pager[b],
              "Continue", << >>)

Integer(b) ==
    /\ At(b, "Integer")
    /\ IF ~RegInBounds(b, Insn(b).dest) THEN Trap(b, "Panic")
       ELSE Commit(b, AdvancePc(pc[b]),
                   SetReg(b, Insn(b).dest, OwnedInteger(Insn(b).value)),
                   cursors[b], pager[b], "Continue", << >>)

String8(b) ==
    /\ At(b, "String8")
    /\ IF ~RegInBounds(b, Insn(b).dest) THEN Trap(b, "Panic")
       ELSE Commit(b, AdvancePc(pc[b]),
                   SetReg(b, Insn(b).dest, OwnedText(Insn(b).value)),
                   cursors[b], pager[b], "Continue", << >>)

\* The rowids of the tables here are 1..nrows, which `*rowid as i64` keeps.
RowId(b) ==
    /\ At(b, "RowId")
    /\ LET id == Insn(b).cursor_id IN
       IF ~Opened(b, id) THEN Trap(b, "Panic")
       ELSE \E fail \in BOOLEAN :
            IF fail THEN Trap(b, "Err")
            ELSE LET rowid == CursorRowId(cursors[b][id]) IN
                 IF rowid = << >> \/ ~RegInBounds(b, Insn(b).dest) THEN Trap(b, "Panic")
                 ELSE Commit(b, AdvancePc(pc[b]),
                             SetReg(b, Insn(b).dest, OwnedInteger(rowid[1])),
                             cursors[b], pager[b], "Continue", << >>)

DecrJumpZero(b) ==
    /\ At(b, "DecrJumpZero")
    /\ IF ~RegInBounds(b, Insn(b).reg) THEN Trap(b, "Panic")
       ELSE LET val == registers[b][Insn(b).reg + 1] IN
            IF val.t # "Integer" THEN Trap(b, "Panic")
            ELSE LET d == DecrJumpZeroStep(val.i, pc[b], Insn(b).target_pc) IN
                 \* an overflowing subtraction panics in a debug build and
                 \* wraps in a release build
                 \E panics \in (IF d.overflow THEN BOOLEAN ELSE {FALSE}) :
                    IF panics THEN Trap(b, "Panic")
                    ELSE Commit(b, d.pc, SetReg(b, Insn(b).reg, OwnedInteger(d.value)),
                                cursors[b], pager[b], "Continue", << >>)

----------------------------------------------------------------------------
(* The specification *)

\* The page caches a run may start from. Programs without a cursor never look
\* at the table, and are run over the empty one with a cold cache.
UsesCursor(p) ==
    \E k \in 1 .. Len(p.insns) :
        p.insns[k].op \in {"OpenReadAsync", "RewindAsync", "RewindAwait", "Column",
                           "NextAsync", "NextAwait", "RowId"}

Init ==
    /\ prog \in Programs
    /\ table \in (IF UsesCursor(prog) THEN Tables ELSE {EmptyTable})
    /\ \E cache \in (IF UsesCursor(prog) THEN SUBSET Pages(table) ELSE {{}}) :
          pager = [b \in Backends |-> [resident |-> cache, loading |-> {}]]
    /\ pc = [b \in Backends |-> ProgramStateNew(prog.max_registers).pc]
    /\ registers = [b \in Backends |-> ProgramStateNew(prog.max_registers).registers]
    /\ cursors = [b \in Backends |-> ProgramStateNew(prog.max_registers).cursors]
    /\ inStep = [b \in Backends |-> FALSE]
    /\ result = [b \in Backends |-> "None"]
    /\ rows = [b \in Backends |-> << >>]
    /\ ioSnap = [b \in Backends |-> << >>]
    /\ file = OpenFile
    /\ completions = << >>
    /\ builder = ProgramBuilderNew
    /\ planner = PlannerNew

StepOf(b) ==
    \/ CallStep(b)
    \/ RunOnce(b)
    \/ FetchOutOfBounds(b)
    \/ Init_(b)
    \/ OpenReadAsync(b)
    \/ OpenReadAwait(b)
    \/ RewindAsync(b)
    \/ RewindAwait(b)
    \/ Column(b)
    \/ ResultRow(b)
    \/ NextAsync(b)
    \/ NextAwait(b)
    \/ Halt(b)
    \/ Transaction(b)
    \/ Goto(b)
    \/ Integer(b)
    \/ String8(b)
    \/ RowId(b)
    \/ DecrJumpZero(b)

Next == \E b \in Backends : StepOf(b)

Spec == Init /\ [][Next]_vars

\* No program is loaded: an empty program over the empty table.
NoProgram == [max_registers |-> 0, insns |-> << >>]

VmIdle ==
    /\ prog = NoProgram
    /\ table = EmptyTable
    /\ pager = [b \in Backends |-> [resident |-> {}, loading |-> {}]]
    /\ pc = [b \in Backends |-> ProgramStateNew(0).pc]
    /\ registers = [b \in Backends |-> ProgramStateNew(0).registers]
    /\ cursors = [b \in Backends |-> ProgramStateNew(0).cursors]
    /\ inStep = [b \in Backends |-> FALSE]
    /\ result = [b \in Backends |-> "None"]
    /\ rows = [b \in Backends |-> << >>]
    /\ ioSnap = [b \in Backends |-> << >>]

\* The file backend on its own: any sequence of pread and run_once calls.
PreadInit ==
    /\ VmIdle
    /\ file = OpenFile /\ completions = << >>
    /\ builder = ProgramBuilderNew /\ planner = PlannerNew

PreadNext == Pread \/ IoRunOnce

PreadSpec == PreadInit /\ [][PreadNext]_vars

\* The instructions the planner emits: over the registers it has allocated.
BuilderPool ==
    {TransactionInsn, GotoInsn(0)}
    \cup {IntegerInsn(1, planner.regs[i]) : i \in 1 .. Len(planner.regs)}

\* The builder is still the caller's: not consumed by build, no panic.
Building == ~planner.built /\ ~planner.panicked

BuilderAllocRegister ==
    /\ Building /\ Len(planner.regs) < MaxAllocs
    /\ LET r == alloc_register(builder) IN
       /\ builder' = r.builder
       /\ planner' = [planner EXCEPT !.regs = Append(@, r.ret),
                                     !.ret = << "alloc_register", r.ret >>]
    /\ UNCHANGED <<vmVars, ioVars>>

BuilderNextFreeRegister ==
    /\ Building
    /\ planner' = [planner EXCEPT !.ret = << "next_free_register", next_free_register(builder) >>]
    /\ UNCHANGED <<builder, vmVars, ioVars>>

BuilderAllocCursorId ==
    /\ Building /\ Len(planner.cursor_ids) < MaxAllocs
    /\ LET r == alloc_cursor_id(builder) IN
       /\ builder' = r.builder
       /\ planner' = [planner EXCEPT !.cursor_ids = Append(@, r.ret),
                                     !.ret = << "alloc_cursor_id", r.ret >>]
    /\ UNCHANGED <<vmVars, ioVars>>

BuilderEmitPlaceholder ==
    /\ Building /\ planner.appended < MaxInsns
    /\ LET r == emit_placeholder(builder) IN
       /\ builder' = r.builder
       /\ planner' = [planner EXCEPT !.appended = @ + 1,
                                     !.ret = << "emit_placeholder", r.ret >>]
    /\ UNCHANGED <<vmVars, ioVars>>

BuilderEmitInsn ==
    /\ Building /\ planner.appended < MaxInsns
    /\ \E insn \in BuilderPool :
          builder' = emit_insn(builder, insn)
    /\ planner' = [planner EXCEPT !.appended = @ + 1, !.ret = << "emit_insn" >>]
    /\ UNCHANGED <<vmVars, ioVars>>

\* self.insns[offset] = insn: an index out of bounds when offset >= insns.len().
BuilderFixupInsn ==
    /\ Building
    /\ \E at \in 0 .. MaxInsns, insn \in BuilderPool :
          IF at < Len(builder.insns)
          THEN /\ builder' = fixup_insn(builder, at, insn)
               /\ planner' = [planner EXCEPT !.ret = << "fixup_insn", at >>]
          ELSE /\ builder' = builder
               /\ planner' = [planner EXCEPT !.ret = << "fixup_insn", at >>,
                                             !.panicked = TRUE]
    /\ UNCHANGED <<vmVars, ioVars>>

BuilderOffset ==
    /\ Building
    /\ planner' = [planner EXCEPT !.ret = << "offset", offset(builder) >>]
    /\ UNCHANGED <<builder, vmVars, ioVars>>

\* The program p has been built and a program state is made for it.
Prepare(p) ==
    /\ prog' = p
    /\ pc' = [b \in Backends |-> ProgramStateNew(p.max_registers).pc]
    /\ registers' = [b \in Backends |-> ProgramStateNew(p.max_registers).registers]
    /\ cursors' = [b \in Backends |-> ProgramStateNew(p.max_registers).cursors]
    /\ UNCHANGED <<table, pager, inStep, result, rows, ioSnap>>

\* build(self) consumes the builder.
BuilderBuild ==
    /\ Building
    /\ Prepare(build(builder))
    /\ planner' = [planner EXCEPT !.built = TRUE, !.ret = << "build" >>]
    /\ UNCHANGED <<builder, ioVars>>

BuilderBuildPragmaChange ==
    /\ Building
    /\ \E value \in {0, 1} :
          Prepare(build_pragma_change(builder, "cache_size", value))
    /\ planner' = [planner EXCEPT !.built = TRUE, !.ret = << "build_pragma_change" >>]
    /\ UNCHANGED <<builder, ioVars>>

\* The builder on its own: any interleaving of its methods, up to build.
BuilderInit ==
    /\ VmIdle
    /\ file = OpenFile /\ completions = << >>
    /\ builder = ProgramBuilderNew /\ planner = PlannerNew

BuilderNext ==
    \/ BuilderAllocRegister
    \/ BuilderNextFreeRegister
    \/ BuilderAllocCursorId
    \/ BuilderEmitPlaceholder
    \/ BuilderEmitInsn
    \/ BuilderFixupInsn
    \/ BuilderOffset
    \/ BuilderBuild
    \/ BuilderBuildPragmaChange

BuilderSpec == BuilderInit /\ [][BuilderNext]_vars

\* The caller of each backend keeps calling step and pumping the reactor, and
\* a call of step that has started keeps running.
FairSpec == Spec /\ \A b \in Backends : WF_vars(StepOf(b))

----------------------------------------------------------------------------
(* Properties *)

\* The program state of backend b changes in this step.
Moved(b) ==
    <<pc[b], registers[b], cursors[b], pager[b], inStep[b], result[b], rows[b], ioSnap[b]>>'
        # <<pc[b], registers[b], cursors[b], pager[b], inStep[b], result[b], rows[b], ioSnap[b]>>

AsyncOps == {"RewindAsync", "NextAsync"}

\* C1: whenever step returns IO, it does so from RewindAsync or NextAsync, pc
\* still is the index of that instruction and no register was written; the
\* caller's run_once and its next call of step leave pc and the registers alone,
\* so the next call starts by fetching that same instruction.
C1_IOReturnKeepsPc ==
    [][\A b \in Backends :
        /\ (inStep[b] /\ ~inStep'[b] /\ result'[b] = "IO") =>
              /\ Fetching(b)
              /\ Insn(b).op \in AsyncOps
              /\ pc'[b] = pc[b]
              /\ registers'[b] = registers[b]
        /\ (~inStep[b] /\ result[b] = "IO") =>
              /\ ioSnap[b] # << >>
              /\ pc[b] = ioSnap[b][1].pc
              /\ registers[b] = ioSnap[b][1].registers
              /\ pc'[b] = pc[b]
              /\ registers'[b] = registers[b]
              /\ inStep'[b] => (Fetching(b)' /\ Insn(b)' = prog.insns[ioSnap[b][1].pc + 1]
                                /\ Insn(b)'.op \in AsyncOps)
    ]_vars

\* The next call after an IO return is about to re-execute RewindAsync.
C1_Witness ==
    \E b \in Backends :
        /\ inStep[b] /\ result[b] = "IO" /\ ioSnap[b] # << >>
        /\ At(b, "RewindAsync") /\ pc[b] = ioSnap[b][1].pc

IsPrefix(s, t) == Len(s) <= Len(t) /\ \A i \in 1 .. Len(s) : s[i] = t[i]

\* The rows of the table as the Column scan projects them, in cursor order.
ScanExpected(t) == [i \in 1 .. t.nrows |-> << ValueText(NameOf(i)) >>]

\* C3: the table-scan program over a table of N rows returns the rows of the
\* table in cursor order, none repeated or skipped (what it has returned is
\* always a prefix of them), has returned all N when it returns Done, and,
\* the caller pumping the reactor after each IO, ends in Done unless a cursor
\* operation fails; this for every placement of the IO returns.
C3_ScanReturnsEveryRow ==
    /\ [](prog = ColumnScan =>
            \A b \in Backends :
                /\ IsPrefix(rows[b], ScanExpected(table))
                /\ result[b] = "Done" => rows[b] = ScanExpected(table))
    /\ (prog = ColumnScan =>
            \A b \in Backends : <>(~inStep[b] /\ result[b] \in {"Done", "Err"}))

\* Over one row per page, one backend has ended in Done with all MaxRows rows
\* while the other is suspended by IO at NextAsync after its second row.
C3_Witness ==
    /\ prog = ColumnScan
    /\ table = [nrows |-> MaxRows, perPage |-> 1]
    /\ result["async"] = "Done" /\ Len(rows["async"]) = MaxRows
    /\ result["sync"] = "IO" /\ pc["sync"] = 8 /\ Len(rows["sync"]) = 2

\* C4: the synchronous and the asynchronous backend, started on the same
\* program, table and cache, return the same sequence of rows: at any moment
\* one has returned a prefix of what the other has, and two runs that both
\* ended in Done have returned the same rows.
C4_SameRowsOnBothBackends ==
    /\ IsPrefix(rows["sync"], rows["async"]) \/ IsPrefix(rows["async"], rows["sync"])
    /\ (result["sync"] = "Done" /\ result["async"] = "Done") => rows["sync"] = rows["async"]

\* The synchronous run has ended in Done with all MaxRows rows while the
\* asynchronous run, a row behind, is suspended on a read whose completion
\* only run_once will fire.
C4_Witness ==
    /\ prog \in {ColumnScan, RowIdScan}
    /\ table.nrows = MaxRows
    /\ result["sync"] = "Done" /\ Len(rows["sync"]) = MaxRows
    /\ result["async"] = "IO" /\ ~inStep["async"] /\ pager["async"].loading # {}
    /\ Len(rows["async"]) = MaxRows - 1 /\ IsPrefix(rows["async"], rows["sync"])

\* The cursor operation of the asynchronous instruction insn on cursor c with
\* every page of the table already cached.
WarmCursorOp(insn, c) ==
    LET warm == [resident |-> Pages(table), loading |-> {}] IN
    IF insn.op = "RewindAsync" THEN CursorRewind(c, warm, table, "sync", TRUE)
    ELSE CursorNext(c, warm, table, "sync", TRUE)

\* C5: when RewindAsync or NextAsync returned IO and, after run_once, the next
\* call of step gets past its first instruction, that instruction is the one
\* that returned IO, and pc, the registers and the cursors end as a single
\* execution of it does that starts from the same program state with the pages
\* cached: pc one further, the registers untouched, the cursor moved once.
C5_RetryEqualsWarmExecution ==
    [][\A b \in Backends :
        (inStep[b] /\ ioSnap[b] # << >> /\ Moved(b) /\ inStep'[b]) =>
            LET s == ioSnap[b][1]
                insn == prog.insns[s.pc + 1]
                w == WarmCursorOp(insn, s.cursors[insn.cursor_id])
            IN /\ insn.op \in AsyncOps
               /\ w.res = "Ok"
               /\ pc[b] = s.pc
               /\ pc'[b] = s.pc + 1
               /\ registers'[b] = s.registers
               /\ cursors'[b] = [s.cursors EXCEPT ![insn.cursor_id] = w.cursor]
    ]_vars

\* NextAsync returned IO on the asynchronous backend at a page boundary,
\* run_once has delivered the page, and the retry is about to run.
C5_Witness ==
    /\ inStep["async"] /\ ioSnap["async"] # << >>
    /\ At("async", "NextAsync")
    /\ pager["async"].loading = {}
    /\ cursors["async"][0].state = "Positioned"
    /\ LeafOf(table, cursors["async"][0].row + 1) \in pager["async"].resident
    /\ LeafOf(table, cursors["async"][0].row + 1) # LeafOf(table, cursors["async"][0].row)

\* C6: RewindAwait(cursor_id, pc_if_empty) that completes on a cursor over a
\* 0-row table sets pc to pc_if_empty; and the scan programs, whose pc_if_empty
\* is the Halt past the Column/ResultRow loop, never return a row over a 0-row
\* table: all they return is IO and then Done (or the error of a failed
\* cursor operation), and they do end so.
C6_RewindOnEmpty ==
    /\ [][\A b \in Backends :
        /\ (/\ At(b, "RewindAwait") /\ Opened(b, Insn(b).cursor_id)
            /\ table.nrows = 0 /\ Moved(b) /\ inStep'[b]) =>
               pc'[b] = Insn(b).pc_if_empty
        /\ (prog \in {ColumnScan, RowIdScan} /\ table.nrows = 0) =>
               /\ rows'[b] = << >>
               /\ result'[b] \in {"None", "IO", "Done", "Err"}
       ]_vars
    /\ ((prog \in {ColumnScan, RowIdScan} /\ table.nrows = 0) =>
            \A b \in Backends :
                <>(~inStep[b] /\ result[b] \in {"Done", "Err"} /\ rows[b] = << >>))

\* The scan of a 0-row table has taken the branch to Halt and returned Done
\* without a row.
C6_Witness ==
    /\ prog = ColumnScan
    /\ table.nrows = 0
    /\ \E b \in Backends :
          /\ pc[b] = 10 /\ result[b] = "Done" /\ rows[b] = << >>
          /\ cursors[b][0].state = "Exhausted"

\* What the counter loop started from k returns: Integer(k-1), ..., Integer(0),
\* one per row; nothing for k <= 0.
CounterExpected(k) == [j \in 1 .. k |-> << ValueInteger(k - j) >>]

C8_ResultRow ==
    [][\A b \in Backends :
        (/\ At(b, "ResultRow")
         /\ Insn(b).register_start <= Insn(b).register_end
         /\ Insn(b).register_end <= Len(registers[b])
         /\ Moved(b)) =>
            LET s == Insn(b).register_start
                e == Insn(b).register_end
                rec == rows'[b][Len(rows'[b])]
            IN /\ ~inStep'[b] /\ result'[b] = "Row"
               /\ Len(rows'[b]) = Len(rows[b]) + 1
               /\ SubSeq(rows'[b], 1, Len(rows[b])) = rows[b]
               /\ Len(rec) = e - s
               /\ \A i \in s .. (e - 1) : rec[i - s + 1] = to_value(registers[b][i + 1])
               /\ registers'[b] = registers[b]
               /\ pc'[b] = pc[b] + 1
    ]_vars

\* ResultRow(1, 2) has returned the one-value record of register 1, an
\* Integer, while register 0 is still Null, and pc is past it.
C8_Witness ==
    \E b \in Backends :
        /\ ~inStep[b] /\ result[b] = "Row"
        /\ pc[b] >= 1 /\ pc[b] <= ProgLen
        /\ prog.insns[pc[b]] = ResultRowInsn(1, 2)
        /\ registers[b][1] = OwnedNull
        /\ registers[b][2].t = "Integer"
        /\ rows[b] = << << ValueInteger(registers[b][2].i) >> >>

\* The branch targets of a program: those of Init, Goto, RewindAwait,
\* NextAwait and DecrJumpZero.
BranchTargets(p) ==
    {p.insns[k].target_pc : k \in {j \in 1 .. Len(p.insns) :
                                     p.insns[j].op \in {"Init", "Goto", "DecrJumpZero"}}}
    \cup {p.insns[k].pc_if_empty : k \in {j \in 1 .. Len(p.insns) :
                                            p.insns[j].op = "RewindAwait"}}
    \cup {p.insns[k].pc_if_next : k \in {j \in 1 .. Len(p.insns) :
                                           p.insns[j].op = "NextAwait"}}

TargetsInRange(p) == BranchTargets(p) \subseteq 0 .. (Len(p.insns) - 1)

\* The last instruction never continues at the instruction after it.
EndsInHaltOrJump(p) == p.insns[Len(p.insns)].op \in {"Halt", "Goto", "Init"}

\* C9 as claimed: for every program whose branch targets all lie in
\* [0, len(insns)), pc is in [0, len(insns)) each time an instruction is fetched.
C9_Original ==
    TargetsInRange(prog) =>
        \A b \in Backends : inStep[b] => pc[b] \in 0 .. (ProgLen - 1)

\* C9 (amended): for every program whose branch targets all lie in
\* [0, len(insns)) and whose last instruction is Halt, Goto or Init, pc is in
\* [0, len(insns)) each time an instruction is fetched.
C9_PcInRangeAtFetch ==
    (TargetsInRange(prog) /\ EndsInHaltOrJump(prog)) =>
        \A b \in Backends : inStep[b] => pc[b] \in 0 .. (ProgLen - 1)

\* A program that ends in a Goto is about to fetch that last instruction
\* after another instruction ran before it.
C9_Witness ==
    /\ TargetsInRange(prog) /\ EndsInHaltOrJump(prog)
    /\ ProgLen >= 2
    /\ prog.insns[ProgLen].op = "Goto"
    /\ \E b \in Backends : inStep[b] /\ pc[b] = ProgLen - 1

\* Where the dispatch loop can go on, inside the same call of step, after the
\* instruction at index k: nowhere after ResultRow and Halt, which return.
LoopSuccessors(p, k) ==
    LET insn == p.insns[k + 1] IN
    (CASE insn.op \in {"Init", "Goto"} -> {insn.target_pc}
       [] insn.op \in {"ResultRow", "Halt"} -> {}
       [] insn.op = "DecrJumpZero" -> {k + 1, insn.target_pc}
       [] insn.op = "RewindAwait" -> {k + 1, insn.pc_if_empty}
       [] insn.op = "NextAwait" -> {k + 1, insn.pc_if_next}
       [] OTHER -> {k + 1})
    \cap (0 .. (Len(p.insns) - 1))

RECURSIVE LoopReach(_, _, _)
LoopReach(p, from, n) ==
    IF n = 0 THEN from
    ELSE LoopReach(p, from \cup UNION {LoopSuccessors(p, k) : k \in from}, n - 1)

\* No cycle of instructions avoids ResultRow and Halt.
NoRowFreeCycle(p) ==
    \A k \in 0 .. (Len(p.insns) - 1) :
        k \notin LoopReach(p, LoopSuccessors(p, k), Len(p.insns))

NoRowFreeCyclePrograms == {p \in Programs : NoRowFreeCycle(p)}

\* C10 as claimed: every invocation of step terminates, and its outcome is one
\* of Row, IO or Done.
C10_Original ==
    \A b \in Backends :
        [](inStep[b] => <>(~inStep[b] /\ result[b] \in {"Row", "IO", "Done"}))

\* C10 (amended): on a program in which no cycle of instructions avoids
\* ResultRow and Halt, every invocation of step terminates, and its outcome is
\* one of Row, IO, Done or an error (a cursor error returned through ?, or a
\* panic).
C10_StepTerminates ==
    prog \in NoRowFreeCyclePrograms =>
        \A b \in Backends :
            [](inStep[b] =>
                  <>(~inStep[b] /\ result[b] \in {"Row", "IO", "Done", "Err", "Panic"}))

\* A call of step on the scan program, which has no row-free cycle, has ended
\* in the error of a cursor operation after it had returned a row.
C10_Witness ==
    /\ prog \in NoRowFreeCyclePrograms
    /\ prog = ColumnScan
    /\ \E b \in Backends : ~inStep[b] /\ result[b] = "Err" /\ Len(rows[b]) = 1 /\ pc[b] = 9

\* Step returned an error: through ? or by a panic (todo!, unreachable!, an
\* index out of bounds, unwrap of None).
ErrorOutcomes == {"Err", "Panic"}

\* C11: Column on an opened cursor without a current record, RowId on an
\* opened cursor without a current rowid, and DecrJumpZero on a register that
\* does not hold an Integer end the call of step in an error outcome, never in
\* Row, IO or Done, and leave pc, every register and the rows returned so far
\* as they were.
C11_BuilderBugsEndInError ==
    [][\A b \in Backends :
        (/\ \/ /\ At(b, "Column") /\ Opened(b, Insn(b).cursor_id)
               /\ CursorRecord(cursors[b][Insn(b).cursor_id]) = << >>
            \/ /\ At(b, "RowId") /\ Opened(b, Insn(b).cursor_id)
               /\ CursorRowId(cursors[b][Insn(b).cursor_id]) = << >>
            \/ /\ At(b, "DecrJumpZero") /\ RegInBounds(b, Insn(b).reg)
               /\ registers[b][Insn(b).reg + 1].t # "Integer"
         /\ Moved(b)) =>
            /\ ~inStep'[b]
            /\ result'[b] \in ErrorOutcomes
            /\ pc'[b] = pc[b]
            /\ registers'[b] = registers[b]
            /\ cursors'[b] = cursors[b]
            /\ rows'[b] = rows[b]
    ]_vars

\* Column has run on a cursor that was opened but never rewound and has
\* panicked: pc still at the Column, the register still Null, no row returned.
C11_Witness ==
    /\ prog \in MisbuiltCursorPrograms
    /\ Len(prog.insns) = 5 /\ prog.insns[3] = ColumnInsn(0, 0, 0)
    /\ \E b \in Backends :
          /\ ~inStep[b] /\ result[b] = "Panic" /\ pc[b] = 2
          /\ Opened(b, 0) /\ cursors[b][0].state = "Unpositioned"
          /\ registers[b] = << OwnedNull >> /\ rows[b] = << >>

\* The instructions that call a fallible cursor operation: rewind, next,
\* wait_for_completion, record, rowid.
CursorOps == {"RewindAsync", "RewindAwait", "Column", "NextAsync", "NextAwait", "RowId"}

\* C12: a call of step ends in Err only at an instruction that calls a cursor
\* operation, and then at once: pc, the registers, the cursors, the pager and
\* the rows returned are as before that instruction, and no instruction runs
\* after it. A cursor instruction that does go on has had the whole effect of
\* its operation (RewindAsync and NextAsync leave a move pending and advance
\* pc; RewindAwait and NextAwait have applied the pending move). A call that
\* submitted a read or found one pending ends in IO, never in Err.
C12_CursorErrorsPropagate ==
    /\ [][\A b \in Backends :
            (inStep[b] /\ Moved(b)) =>
               /\ (~inStep'[b] /\ result'[b] = "Err") =>
                     /\ Fetching(b) /\ Insn(b).op \in CursorOps
                     /\ pc'[b] = pc[b]
                     /\ registers'[b] = registers[b]
                     /\ cursors'[b] = cursors[b]
                     /\ pager'[b] = pager[b]
                     /\ rows'[b] = rows[b]
               /\ (Fetching(b) /\ Insn(b).op \in CursorOps /\ Opened(b, Insn(b).cursor_id)
                   /\ inStep'[b]) =>
                     LET id == Insn(b).cursor_id IN
                     CASE Insn(b).op \in AsyncOps ->
                            pc'[b] = pc[b] + 1 /\ cursors'[b][id].pending # "none"
                       [] Insn(b).op \in {"RewindAwait", "NextAwait"} ->
                            cursors'[b][id] = CursorWait(cursors[b][id], table)
                       [] OTHER ->
                            pc'[b] = pc[b] + 1 /\ registers'[b][Insn(b).dest + 1] # OwnedNull
               /\ (pager'[b] # pager[b] /\ ~inStep'[b]) => result'[b] = "IO"
         ]_vars
    /\ [](\A b \in Backends : result[b] = "Err" => ~inStep[b])

\* wait_for_completion has failed at the RewindAwait of the RowId scan: the
\* call has ended in Err with pc still at RewindAwait, the rewind still
\* pending, the register Null and no row returned.
C12_Witness ==
    /\ prog = RowIdScan
    /\ \E b \in Backends :
          /\ ~inStep[b] /\ result[b] = "Err" /\ pc[b] = 5
          /\ cursors[b][0].pending = "rewind"
          /\ registers[b] = << OwnedNull >> /\ rows[b] = << >>

\* C13: after step has returned a Row produced by ResultRow(reg_start, reg_end),
\* column_count of the program state equals the number of columns of that
\* row, reg_end - reg_start.
C13_ColumnCountIsRowWidth ==
    \A b \in Backends :
        (~inStep[b] /\ result[b] = "Row") =>
            /\ prog.insns[pc[b]].op = "ResultRow"
            /\ Len(rows[b][Len(rows[b])])
                 = prog.insns[pc[b]].register_end - prog.insns[pc[b]].register_start
            /\ column_count(registers[b]) = Len(rows[b][Len(rows[b])])

\* C14: every call of WindowsFile::pread that returned Ok has completed its
\* Completion exactly once, with the whole buffer filled at that moment; a
\* call whose seek or read failed returned an error and has not completed its
\* Completion; and nothing that happens later, run_once or another pread,
\* delivers anything to a Completion of an earlier call.
C14_PreadCompletesOnce ==
    /\ [](\A i \in 1 .. Len(completions) :
            LET e == completions[i] IN
            /\ e.ret \in {"Ok", "Err"}
            /\ e.ret = "Ok" => (e.c.filled = BufLen /\ e.c.delivered = << BufLen >>)
            /\ e.ret = "Err" => e.c.delivered = << >>)
    /\ [][/\ Len(completions') >= Len(completions)
          /\ \A i \in 1 .. Len(completions) : completions'[i] = completions[i]]_vars

\* One pread has failed in read_exact with part of the buffer filled and has
\* left its Completion alone, and a later one has succeeded and completed its
\* own once.
C14_Witness ==
    /\ Len(completions) = 2
    /\ completions[1].ret = "Err" /\ completions[1].c.filled \in 1 .. (BufLen - 1)
    /\ completions[1].c.delivered = << >>
    /\ completions[2].ret = "Ok" /\ completions[2].c.delivered = << BufLen >>
    /\ file.offset = completions[2].pos + BufLen

\* C15: a program state built from max_registers starts, before the first
\* call of step, with pc = 0, no cursor and exactly max_registers registers,
\* all Null; and whatever calls of step follow, the registers stay exactly
\* max_registers many (instructions only overwrite slots).
C15_RegistersFixedSize ==
    /\ [](\A b \in Backends :
            /\ (result[b] = "None" /\ ~inStep[b]) =>
                  /\ pc[b] = 0
                  /\ cursors[b] = << >>
                  /\ \A r \in DOMAIN registers[b] : registers[b][r] = OwnedNull
            /\ DOMAIN registers[b] = 1 .. prog.max_registers
            /\ Len(registers[b]) = prog.max_registers)
    /\ [][\A b \in Backends : Len(registers'[b]) = Len(registers[b])]_vars

\* Both registers of a two-register program have been overwritten, with an
\* Integer and a Text, and there still are two.
C15_Witness ==
    /\ prog.max_registers = 2
    /\ \E b \in Backends :
          /\ Len(registers[b]) = 2
          /\ registers[b][1].t = "Integer" /\ registers[b][2].t = "Text"
          /\ result[b] = "Panic"

\* 0, 1, ..., n - 1 in this order.
Iota(n) == [i \in 1 .. n |-> i - 1]

\* C16: under any interleaving of builder calls, the indices alloc_register
\* has returned are 0, 1, 2, ... in this order, none twice; likewise those of
\* alloc_cursor_id, and neither call moves the other's counter; and the
\* Program that build or build_pragma_change produces has max_registers equal
\* to the number of alloc_register calls, so that every index handed out is in
\* [0, max_registers) and is a register of the program state made for it.
C16_AllocationsAreDense ==
    /\ [](/\ planner.regs = Iota(Len(planner.regs))
          /\ planner.cursor_ids = Iota(Len(planner.cursor_ids))
          /\ planner.built =>
                /\ prog.max_registers = Len(planner.regs)
                /\ \A i \in 1 .. Len(planner.regs) :
                      /\ planner.regs[i] \in 0 .. (prog.max_registers - 1)
                      /\ \A b \in Backends : RegInBounds(b, planner.regs[i]))
    /\ [][/\ planner'.regs # planner.regs =>
                /\ planner'.cursor_ids = planner.cursor_ids
                /\ builder'.next_free_cursor_id = builder.next_free_cursor_id
          /\ planner'.cursor_ids # planner.cursor_ids =>
                /\ planner'.regs = planner.regs
                /\ builder'.next_free_register = builder.next_free_register
         ]_vars

\* Two registers and one cursor id were allocated with instructions emitted in
\* between, the second register is used by an emitted instruction, and the
\* program built has two registers.
C16_Witness ==
    /\ planner.built
    /\ planner.regs = << 0, 1 >> /\ planner.cursor_ids = << 0 >>
    /\ prog.max_registers = 2
    /\ Len(prog.insns) = 3
    /\ prog.insns[1] = IntegerInsn(1, 0) /\ prog.insns[3] = IntegerInsn(1, 1)
    /\ prog.program_type[1] = "PragmaChange"

\* The builder call this step makes is the method name.
BuilderCall(name) == planner' # planner /\ planner'.ret[1] = name

\* C18: offset() always is the number of instructions appended so far;
\* emit_placeholder returns the offset from before the call and appends exactly
\* one Halt, at that offset; fixup_insn(offset, insn) with offset below the
\* instruction count replaces the instruction at that offset and nothing
\* else: the count, every other instruction and both counters stay.
C18_OffsetPlaceholderFixup ==
    /\ [](offset(builder) = planner.appended)
    /\ [][/\ BuilderCall("offset") =>
                planner'.ret[2] = planner.appended /\ builder' = builder
          /\ BuilderCall("emit_placeholder") =>
                /\ planner'.ret[2] = offset(builder)
                /\ offset(builder') = offset(builder) + 1
                /\ builder'.insns[planner'.ret[2] + 1] = HaltInsn
                /\ \A k \in 1 .. Len(builder.insns) : builder'.insns[k] = builder.insns[k]
                /\ builder'.next_free_register = builder.next_free_register
                /\ builder'.next_free_cursor_id = builder.next_free_cursor_id
          /\ (BuilderCall("fixup_insn") /\ ~planner'.panicked) =>
                /\ offset(builder') = offset(builder)
                /\ \A k \in 1 .. Len(builder.insns) :
                      k # planner'.ret[2] + 1 => builder'.insns[k] = builder.insns[k]
                /\ builder'.insns[planner'.ret[2] + 1] \in BuilderPool
                /\ builder'.next_free_register = builder.next_free_register
                /\ builder'.next_free_cursor_id = builder.next_free_cursor_id
         ]_vars

\* The placeholder emitted at offset 1 has just been fixed up to a Goto, the
\* instruction before it and the placeholder after it being as they were.
C18_Witness ==
    /\ planner.ret = << "fixup_insn", 1 >> /\ ~planner.panicked
    /\ builder.insns = << TransactionInsn, GotoInsn(0), HaltInsn >>
    /\ offset(builder) = 3 /\ planner.appended = 3

\* C17: NextAwait(cursor_id, pc_if_next) on an opened cursor whose
\* wait_for_completion succeeds applies the pending move and then sets pc to
\* pc_if_next when the cursor is on a valid cell (not empty), and to pc + 1
\* when it is not; no register changes either way, and the loop goes on.
C17_NextAwait ==
    [][\A b \in Backends :
        (/\ At(b, "NextAwait") /\ Opened(b, Insn(b).cursor_id)
         /\ Moved(b) /\ inStep'[b]) =>
            LET id == Insn(b).cursor_id
                c == cursors'[b][id]
            IN /\ c = CursorWait(cursors[b][id], table)
               /\ ~CursorIsEmpty(c) => pc'[b] = Insn(b).pc_if_next
               /\ CursorIsEmpty(c) => pc'[b] = pc[b] + 1
               /\ (pc'[b] = Insn(b).pc_if_next /\ Insn(b).pc_if_next # pc[b] + 1)
                     => ~CursorIsEmpty(c)
               /\ registers'[b] = registers[b]
               /\ rows'[b] = rows[b]
    ]_vars

\* In the RowId scan of two rows, NextAwait has just branched back to the loop
\* body on one backend, the cursor on row 2, and has just fallen through to
\* Halt on the other, the cursor exhausted.
C17_Witness ==
    /\ prog = RowIdScan /\ table.nrows = 2
    /\ inStep["sync"] /\ pc["sync"] = 6
    /\ cursors["sync"][0].state = "Positioned" /\ cursors["sync"][0].row = 2
    /\ Len(rows["sync"]) = 1
    /\ inStep["async"] /\ pc["async"] = 10
    /\ cursors["async"][0].state = "Exhausted"
    /\ Len(rows["async"]) = 2

\* C19: Halt returns Done and leaves pc, the registers and the cursors as they
\* are; so once a call of step has returned Done, pc stays on that Halt, every
\* later call fetches it and returns Done again, and nothing of the program
\* state or of the rows returned changes any more.
C19_DoneIsAbsorbing ==
    /\ [][\A b \in Backends :
            /\ (At(b, "Halt") /\ Moved(b)) =>
                  /\ ~inStep'[b] /\ result'[b] = "Done"
                  /\ pc'[b] = pc[b]
                  /\ registers'[b] = registers[b]
                  /\ cursors'[b] = cursors[b]
            /\ result[b] = "Done" =>
                  /\ result'[b] = "Done"
                  /\ pc'[b] = pc[b]
                  /\ registers'[b] = registers[b]
                  /\ cursors'[b] = cursors[b]
                  /\ pager'[b] = pager[b]
                  /\ rows'[b] = rows[b]
         ]_vars
    /\ [](\A b \in Backends :
            result[b] = "Done" =>
               /\ pc[b] \in 0 .. (ProgLen - 1) /\ prog.insns[pc[b] + 1].op = "Halt"
               /\ ENABLED (CallStep(b) \/ Halt(b)))

\* After the scan of a full table has returned Done, step was called again
\* and is about to execute the same Halt.
C19_Witness ==
    /\ prog = ColumnScan /\ table.nrows = MaxRows
    /\ \E b \in Backends :
          /\ result[b] = "Done" /\ inStep[b] /\ At(b, "Halt")
          /\ pc[b] = 10 /\ Len(rows[b]) = MaxRows

\* C20: DecrJumpZero is well defined on every i64, the least one included: it
\* never panics on an Integer register and never wraps around, the register
\* holding n - 1 afterwards when n > 0 and n when n <= 0, a value of i64; and a
\* register that holds a non-negative integer holds a non-negative integer
\* after it, however often DecrJumpZero runs.
C20_DecrJumpZeroNoOverflow ==
    /\ [][\A b \in Backends :
            (/\ At(b, "DecrJumpZero") /\ RegInBounds(b, Insn(b).reg)
             /\ registers[b][Insn(b).reg + 1].t = "Integer"
             /\ Moved(b)) =>
                LET n == registers[b][Insn(b).reg + 1].i
                    m == registers'[b][Insn(b).reg + 1]
                IN /\ n \in I64
                   /\ ~DecrJumpZeroStep(n, pc[b], Insn(b).target_pc).overflow
                   /\ inStep'[b] /\ result'[b] # "Panic"
                   /\ m.t = "Integer" /\ m.i \in I64
                   /\ m.i = IF n > 0 THEN n - 1 ELSE n
                   /\ n >= 0 => m.i >= 0
         ]_vars
    /\ [](\A b \in Backends : \A r \in DOMAIN registers[b] :
            registers[b][r].t = "Integer" => registers[b][r].i \in I64)

\* DecrJumpZero has run on i64::MIN, which it has left in the register while
\* branching to Halt, on one backend, and the other backend is past it too.
C20_Witness ==
    /\ prog \in BoundaryPrograms
    /\ prog.insns[1].value = I64Min
    /\ \A b \in Backends :
          /\ result[b] = "Done" /\ pc[b] = 3 /\ rows[b] = << >>
          /\ registers[b] = << OwnedInteger(I64Min) >>

====
